---- MODULE Spec2Model ----
(***************************************************************************)
(* Model of src/main.py (snichecker): start() builds the variant list,     *)
(* starts one thread per variant, each thread runs SniChecker.run on its   *)
(* variant (port from the shared pool, scratch file, tunnel process,       *)
(* connectivity check, teardown), and start() joins every thread.          *)
(***************************************************************************)
EXTENDS Integers, Sequences, FiniteSets, TLC

(* ---- bounds of the model ---- *)

\* Largest number of variants start() is given (len(configs), main.py:301).
NumVariants == 3

\* Size of the port pool. The source draws 100 ports (main.py:25); the model
\* keeps the pool smaller than the largest variant list and larger than
\* max_threads, as 100 is with respect to 10 and to any longer variant list.
PoolSize == 2

\* Value the semaphore is created with. The source uses 10 (main.py:304).
max_threads == 1

Threads == 1..NumVariants

VARIABLES
    baseConfig,   \* start(): the argument config, a configuration string
    sniList,      \* start(): the number of lines read from the sni file
    call,         \* a call of one of the string functions, and what it returned
    mainpc,       \* position of start(): "generate", "raised" (ValueError left
                  \* start), "semaphore", "dispatch", "join", "returned"
    configs,      \* start(): the list of generated variants
    sni_checker,  \* start(): the last SniChecker constructed (0: none)
    config,       \* start(): the loop variable of `for config in configs`
    semaphore,    \* start(): value of the threading.Semaphore
    threads,      \* start(): number of threads created and started
    joined,       \* start(): number of threads joined so far
    vulnerable,   \* environment: the variants whose tunnel reaches the endpoint
    ports,        \* the global port pool (a list)
    tmpdir,       \* the scratch files that exist in tmp/
    pc,           \* per thread: position in the lambda / SniChecker.run
    lambdaX,      \* per thread: the default argument x bound by the lambda
    self,         \* per thread: the instance run() was called on
    urls,         \* per thread: parameter urls of run
    port,         \* per thread: local port of run
    filename,     \* per thread: local filename of run (0: not set)
    process,      \* per thread: state of the Popen'd process
    signalled,    \* per thread: SIGTERM was sent to the process group
    result,       \* per thread: local result of run
    exc,          \* per thread: exception that ended the thread
    log           \* per thread: the records this thread gave to logger

vars == <<baseConfig, sniList, call, mainpc, configs, sni_checker, config, semaphore, threads, joined,
          vulnerable, ports, tmpdir, pc, lambdaX, self, urls, port, filename,
          process, signalled, result, exc, log>>

inputVars == <<baseConfig, sniList, call>>

mainVars == <<baseConfig, sniList, call, mainpc, configs, sni_checker, config,
              semaphore, threads, joined>>

runVars == <<ports, tmpdir, self, urls, port, filename, process, signalled,
             result, exc, log>>

(* ---- helpers ---- *)

\* list.pop(): the element a pop returns (the last one).
PopValue(s) == s[Len(s)]

\* list.pop(): the list a pop leaves.
PopRest(s) == SubSeq(s, 1, Len(s) - 1)

\* random.sample(range(1024, 65536), 100): distinct ports, in some order.
\* The sampled ports are named by their position in the sample, 1..PoolSize.
InitialPool == [i \in 1..PoolSize |-> i]

\* The environments: which variants' tunnels reach the endpoint (the
\* odd-numbered or the even-numbered variants).
Environments ==
    { {v \in Threads : v % 2 = 1}, {v \in Threads : v % 2 = 0} }

\* uuid.uuid4(): a fresh name for each call; thread i's call is named i.
Uuid4(i) == i

\* pc values between the entry of SniChecker.run and its end.
InRun == {"write", "popen", "try", "finally", "wait", "remove"}

\* pc values of a thread that has terminated.
Ended == {"done", "crashed"}

\* The invocations of run that have started and not yet ended.
InFlight == {i \in Threads : pc[i] \in InRun}

(* ---- Python strings: a str is a sequence of one-character strings ---- *)

\* s[a-1:b] of Python, with 1-based inclusive bounds.
Slice(s, a, b) == SubSeq(s, a, b)

\* s[p-1:].startswith(old): old occurs in s at position p (1-based).
MatchesAt(s, old, p) ==
    /\ p >= 1
    /\ p + Len(old) - 1 <= Len(s)
    /\ \A k \in 1..Len(old) : s[p + k - 1] = old[k]

\* [m.start() for m in re.finditer(re.escape(old), s)] from position p on,
\* 1-based: the non-overlapping occurrences, leftmost first. The empty
\* pattern matches once at every position, the end of the string included.
RECURSIVE FindIterFrom(_, _, _)
FindIterFrom(s, old, p) ==
    IF p + Len(old) - 1 > Len(s) THEN <<>>
    ELSE IF MatchesAt(s, old, p)
         THEN <<p>> \o FindIterFrom(s, old, p + (IF Len(old) = 0 THEN 1 ELSE Len(old)))
         ELSE FindIterFrom(s, old, p + 1)

\* Line 134: the start positions of the occurrences of old in s.
FindIter(s, old) == FindIterFrom(s, old, 1)

\* str.count(old): the number of non-overlapping occurrences.
Count(s, old) == Len(FindIter(s, old))

\* str.replace(old, new, 1): the leftmost occurrence replaced, or s itself.
Replace1(s, old, new) ==
    LET occ == FindIter(s, old) IN
    IF occ = <<>> THEN s
    ELSE Slice(s, 1, occ[1] - 1) \o new
            \o Slice(s, occ[1] + Len(old), Len(s))

\* Variant of replace_nth: the occurrence is looked up at index n instead of
\* n - 1 (occurrences[n]), and the last one falls out of range.
replace_nth_off_by_one(string, old, new, n) ==
    LET At(index) ==
            Slice(string, 1, index - 1)
                \o Replace1(Slice(string, index, Len(string)), old, new)
        Nth(occurrences) ==
            IF n <= 0 \/ n >= Len(occurrences) THEN string ELSE At(occurrences[n + 1])
    IN  Nth(FindIter(string, old))

\* Lines 116-151: replace_nth(string, old, new, n): the string unchanged when
\* n is not the number of an occurrence (line 137), else the prefix before the
\* n-th occurrence followed by the suffix with its first occurrence replaced.
replace_nth(string, old, new, n) ==
    LET At(nth_occurrence_index) ==
            LET prefix == Slice(string, 1, nth_occurrence_index - 1)
                suffix == Slice(string, nth_occurrence_index, Len(string))
            IN  prefix \o Replace1(suffix, old, new)
        Nth(occurrences) ==
            IF n <= 0 \/ n > Len(occurrences) THEN string ELSE At(occurrences[n])
    IN  Nth(FindIter(string, old))

(* ---- parse_config ---- *)

\* str.isalpha() on the ASCII letters the model's strings are written in.
Letters ==
    {"a", "b", "c", "d", "e", "f", "g", "h", "i", "j", "k", "l", "m", "n", "o",
     "p", "q", "r", "s", "t", "u", "v", "w", "x", "y", "z", "V"}

\* The decimal digits.
Digits == {"0", "1", "2", "3", "4", "5", "6", "7", "8", "9"}

\* urllib.parse.scheme_chars.
SchemeChars == Letters \cup Digits \cup {"+", "-", "."}

\* str.lower() of one character (V is the upper-case letter of the model).
LowerChar(c) == IF c = "V" THEN "v" ELSE c

\* str.lower().
Lower(s) == [k \in 1..Len(s) |-> LowerChar(s[k])]

\* s.find(c, p-1) + 1: the first position >= p of a character of cs, or 0.
FindAny(s, cs, p) ==
    LET hits == {k \in p..Len(s) : s[k] \in cs} IN
    IF hits = {} THEN 0 ELSE CHOOSE k \in hits : \A m \in hits : k <= m

\* s.split(c): the pieces between the occurrences of the character c.
RECURSIVE Split(_, _)
Split(s, c) ==
    LET i == FindAny(s, {c}, 1) IN
    IF i = 0 THEN <<s>>
    ELSE <<Slice(s, 1, i - 1)>> \o Split(Slice(s, i + 1, Len(s)), c)

\* s.split(c, 1): at most two pieces, cut at the first c.
SplitOnce(s, c) ==
    LET i == FindAny(s, {c}, 1) IN
    IF i = 0 THEN <<s>>
    ELSE <<Slice(s, 1, i - 1), Slice(s, i + 1, Len(s))>>

\* Line 90: urllib.parse.urlparse(config), its scheme, netloc and query: the
\* scheme is what precedes the first ':' when that is a letter followed by
\* scheme characters, lower-cased; the netloc follows '//' up to the first of
\* '/', '?', '#'; the query follows the first '?' and stops at '#'.
urlparse(url) ==
    LET Query(noFragment, q) ==
            IF q = 0 THEN <<>> ELSE Slice(noFragment, q + 1, Len(noFragment))
        NoFragment(path, hash) ==
            IF hash = 0 THEN path ELSE Slice(path, 1, hash - 1)
        AfterPath(scheme, netloc, noFragment) ==
            [scheme |-> scheme, netloc |-> netloc,
             query |-> Query(noFragment, FindAny(noFragment, {"?"}, 1))]
        AfterNetloc(scheme, netloc, path) ==
            AfterPath(scheme, netloc, NoFragment(path, FindAny(path, {"#"}, 1)))
        NetlocEnd(rest, delim) == IF delim = 0 THEN Len(rest) ELSE delim - 1
        WithNetloc(scheme, rest, netlocEnd) ==
            AfterNetloc(scheme, Slice(rest, 3, netlocEnd),
                        Slice(rest, netlocEnd + 1, Len(rest)))
        AfterScheme(scheme, rest) ==
            IF Len(rest) >= 2 /\ rest[1] = "/" /\ rest[2] = "/"
              THEN WithNetloc(scheme, rest,
                              NetlocEnd(rest, FindAny(rest, {"/", "?", "#"}, 3)))
              ELSE AfterNetloc(scheme, <<>>, rest)
        HasScheme(i) ==
            /\ i > 1
            /\ url[1] \in Letters
            /\ \A k \in 1..(i - 1) : url[k] \in SchemeChars
        AfterColon(i) ==
            IF HasScheme(i)
              THEN AfterScheme(Lower(Slice(url, 1, i - 1)), Slice(url, i + 1, Len(url)))
              ELSE AfterScheme(<<>>, url)
    IN  AfterColon(FindAny(url, {":"}, 1))

\* int(s) accepts s: a non-empty run of decimal digits.
IsInt(s) == Len(s) > 0 /\ \A k \in 1..Len(s) : s[k] \in Digits

\* The value of one decimal digit.
DigitValue(c) ==
    CASE c = "0" -> 0 [] c = "1" -> 1 [] c = "2" -> 2 [] c = "3" -> 3
      [] c = "4" -> 4 [] c = "5" -> 5 [] c = "6" -> 6 [] c = "7" -> 7
      [] c = "8" -> 8 [] c = "9" -> 9

\* int(s) for a run of decimal digits.
RECURSIVE IntOf(_)
IntOf(s) ==
    IF Len(s) = 0 THEN 0
    ELSE 10 * IntOf(Slice(s, 1, Len(s) - 1)) + DigitValue(s[Len(s)])

\* A Python str and a Python int as values of the result dict.
StrValue(s) == <<"str", s>>
IntValue(n) == <<"int", n>>

\* urllib.parse.parse_qsl(query): the (name, value) pairs of the fields
\* separated by '&'; a field without '=' or with a blank value is dropped.
RECURSIVE ParseQsl(_)
ParseQsl(fields) ==
    IF fields = <<>> THEN <<>>
    ELSE LET nv == SplitOnce(Head(fields), "=")
             keep == Len(nv) = 2 /\ Len(nv[2]) > 0
         IN  (IF keep THEN <<nv>> ELSE <<>>) \o ParseQsl(Tail(fields))

\* Line 108: {key: value[0] for key, value in parse_qs(query).items()}: each
\* name with the first of its values.
RECURSIVE FirstValues(_)
FirstValues(pairs) ==
    IF pairs = <<>> THEN <<>>
    ELSE (pairs[1][1] :> StrValue(pairs[1][2])) @@ FirstValues(Tail(pairs))

\* Line 108: the dict of the query string.
parse_qs(query) ==
    IF query = <<>> THEN <<>> ELSE FirstValues(ParseQsl(Split(query, "&")))

\* The keys parse_config writes itself.
KeyProto == <<"p", "r", "o", "t", "o">>
KeyUuid == <<"u", "u", "i", "d">>
KeyAddress == <<"a", "d", "d", "r", "e", "s", "s">>
KeyPort == <<"p", "o", "r", "t">>

\* The keys generate looks up.
KeySni == <<"s", "n", "i">>
KeyHost == <<"h", "o", "s", "t">>

\* Line 109: result.update(qs): the query's keys replace the ones already set.
UpdateWithQuery(parsed, qs) == qs @@ parsed

\* Lines 98-99: netloc.split('@'): element 0 is the uuid and element 1 holds
\* the address.
CredentialAndHost(netloc) == Split(netloc, "@")

\* Lines 86-114: parse_config(config): ok is FALSE where the code raises
\* ValueError, and result is the dict it returns otherwise.
parse_config(cfg) ==
    LET Extract(parse, atParts, colonParts) ==
            IF \/ parse.scheme = <<>>
               \/ parse.netloc = <<>>
               \/ Len(atParts) < 2
               \/ Len(colonParts) < 2
               \/ ~IsInt(colonParts[2])
              THEN [ok |-> FALSE, result |-> <<>>]
              ELSE [ok |-> TRUE,
                    result |-> UpdateWithQuery(
                        (KeyProto :> StrValue(parse.scheme))
                            @@ (KeyUuid :> StrValue(atParts[1]))
                            @@ (KeyAddress :> StrValue(Split(atParts[2], ":")[1]))
                            @@ (KeyPort :> IntValue(IntOf(colonParts[2]))),
                        parse_qs(parse.query))]
        Cut(parse) ==
            Extract(parse, CredentialAndHost(parse.netloc), Split(parse.netloc, ":"))
    IN  Cut(urlparse(cfg))

(* ---- SniChecker.generate ---- *)

\* dict.get(key) is truthy: the key is set, to a non-empty str or a non-zero
\* int.
Truthy(d, key) ==
    /\ key \in DOMAIN d
    /\ IF d[key][1] = "str" THEN Len(d[key][2]) > 0 ELSE d[key][2] # 0

\* Variant of ExpansionRange: every occurrence counted in the variant is
\* replaced in turn (range(url.count(address))).
ExpansionRangeAll(count) == 1..count

\* Line 199: the occurrence numbers j + 1 for j in range(url.count(address) - 1).
ExpansionRange(count) == 1..(count - 1)

\* Lines 198-200: the variants the expansion appends for the variant url.
ExpandVariant(url, address, sni) ==
    LET js == ExpansionRange(Count(url, address)) IN
    [j \in 1..Cardinality(js) |-> replace_nth(url, address, sni, j)]

\* Lines 195-200: the expansions of the variants at positions i..Len(firsts),
\* in order.
RECURSIVE Expansion(_, _, _, _)
Expansion(firsts, i, address, sni) ==
    IF i > Len(firsts) THEN <<>>
    ELSE ExpandVariant(firsts[i], address, sni)
            \o Expansion(firsts, i + 1, address, sni)

\* Variant of Primary: the primary variant is built as the others are, with
\* the second occurrence of the address replaced.
PrimarySecondOccurrence(url, address, sni) == replace_nth(url, address, sni, 2)

\* Line 183: url.replace(address, self.sni, 1).
Primary(url, address, sni) == Replace1(url, address, sni)

\* Lines 179-192: the variants of the primary, sni and host steps.
FirstVariants(url, sni, cfg) ==
    LET HostStep(address, generated_urls) ==
            IF Truthy(cfg, KeyHost)
              THEN Append(generated_urls,
                          replace_nth(url, address, sni, Len(generated_urls) + 1))
              ELSE generated_urls
        SniStep(address, generated_urls) ==
            HostStep(address,
                     IF Truthy(cfg, KeySni)
                       THEN Append(generated_urls, replace_nth(url, address, sni, 2))
                       ELSE generated_urls)
        PrimaryStep(address) == SniStep(address, <<Primary(url, address, sni)>>)
    IN  PrimaryStep(cfg[KeyAddress][2])

\* Lines 172-202: SniChecker(sni, url).generate(), for a url that
\* parse_config accepts.
generate(sni, url) ==
    LET Expand(address, firsts) ==
            IF Len(firsts) # 1
              THEN firsts \o Expansion(firsts, 2, address, sni)
              ELSE firsts
        Steps(cfg) == Expand(cfg[KeyAddress][2], FirstVariants(url, sni, cfg))
    IN  Steps(parse_config(url).result)

(* ---- state after module import, before start() runs ---- *)

\* The candidate domain of every line of the sni file.
Candidate == <<"f">>

\* The configuration strings start() is given: one that parse_config accepts,
\* with neither flag, and two that it rejects.
StartConfigs ==
    { <<"v", ":", "/", "/", "u", "@", "h", ":", "4">>,
      <<"n", "o", "t", "-", "a", "-", "u", "r", "l">>,
      <<"v", ":", "/", "/", "u", "@", "h">> }

\* No string function is being called.
NoCall == [fn |-> "none", args |-> <<>>, done |-> TRUE, raised |-> FALSE, ret |-> <<>>]

\* The state of the threads and of the globals before start() runs.
InitRun ==
    /\ ports = InitialPool
    /\ tmpdir = {}
    /\ pc = [i \in Threads |-> "none"]
    /\ lambdaX = [i \in Threads |-> 0]
    /\ self = [i \in Threads |-> 0]
    /\ urls = [i \in Threads |-> 0]
    /\ port = [i \in Threads |-> 0]
    /\ filename = [i \in Threads |-> 0]
    /\ process = [i \in Threads |-> "none"]
    /\ signalled = [i \in Threads |-> FALSE]
    /\ result = [i \in Threads |-> "None"]
    /\ exc = [i \in Threads |-> "none"]
    /\ log = [i \in Threads |-> <<>>]

Init ==
    /\ baseConfig \in StartConfigs
    /\ sniList \in 0..NumVariants
    /\ call = NoCall
    /\ mainpc = "generate"
    /\ configs = <<>>
    /\ sni_checker = 0
    /\ config = 0
    /\ semaphore = 0
    /\ threads = 0
    /\ joined = 0
    /\ vulnerable \in Environments
    /\ InitRun

(* ---- start(): the main thread ---- *)

\* Line 167, for the configuration strings start() is given: the ones
\* parse_config raises ValueError on.
RejectedConfigs == {c \in StartConfigs : ~parse_config(c).ok}

\* Lines 298-299: the number of variants generate() returns for one candidate,
\* for each configuration string parse_config accepts.
VariantsPerCandidate ==
    [c \in StartConfigs \ RejectedConfigs |-> Len(generate(Candidate, c))]

\* Lines 292-297: SniChecker(sni=x, config=config) is constructed for every
\* line of the sni file and its parse_config raises ValueError out of start():
\* there is a line and the configuration is rejected.
ConstructorRaises == sniList > 0 /\ baseConfig \in RejectedConfigs

\* Lines 289-301: one SniChecker per candidate domain, its variants appended
\* to configs. Each candidate contributes one variant here (a base
\* configuration with neither flag), so variant v comes from checker v and
\* the last checker constructed is the one of the last variant.
Generate ==
    /\ mainpc = "generate"
    /\ IF ConstructorRaises
          THEN /\ mainpc' = "raised"
               /\ UNCHANGED <<configs, sni_checker>>
          ELSE /\ \E nv \in {IF sniList = 0 THEN 0
                              ELSE sniList * VariantsPerCandidate[baseConfig]} :
                     /\ configs' = [v \in 1..nv |-> v]
                     /\ sni_checker' = nv
               /\ mainpc' = "semaphore"
    /\ UNCHANGED <<config, semaphore, threads, joined, vulnerable, pc, lambdaX>>
    /\ UNCHANGED runVars
    /\ UNCHANGED inputVars

\* Lines 304-305: the semaphore is created with max_threads permits.
CreateSemaphore ==
    /\ mainpc = "semaphore"
    /\ semaphore' = max_threads
    /\ mainpc' = "dispatch"
    /\ UNCHANGED <<configs, sni_checker, config, threads, joined, vulnerable,
                   pc, lambdaX>>
    /\ UNCHANGED runVars
    /\ UNCHANGED inputVars

\* Line 310: the value the lambda's default argument x is bound to when the
\* lambda is created in the iteration over variant c.
LambdaDefault(c) == c

\* Lines 309-312: one iteration of the loop: the loop variable takes the next
\* variant, a thread is created around the lambda and started.
Dispatch ==
    /\ mainpc = "dispatch"
    /\ threads < Len(configs)
    /\ config' = configs[threads + 1]
    /\ lambdaX' = [lambdaX EXCEPT ![threads + 1] = LambdaDefault(config')]
    /\ pc' = [pc EXCEPT ![threads + 1] = "ready"]
    /\ threads' = threads + 1
    /\ UNCHANGED <<mainpc, configs, sni_checker, semaphore, joined, vulnerable>>
    /\ UNCHANGED runVars
    /\ UNCHANGED inputVars

\* Line 309: the loop over configs is exhausted.
EndDispatch ==
    /\ mainpc = "dispatch"
    /\ threads = Len(configs)
    /\ mainpc' = "join"
    /\ UNCHANGED <<configs, sni_checker, config, semaphore, threads, joined,
                   vulnerable, pc, lambdaX>>
    /\ UNCHANGED runVars
    /\ UNCHANGED inputVars

\* Variant of JoinReturns: the join does not wait for the thread (a join
\* with a zero timeout).
JoinReturnsAtOnce(t) == TRUE

\* Line 315: x.join() returns once thread t has terminated.
JoinReturns(t) == pc[t] \in Ended

\* Lines 313-317: one iteration of the join loop.
Join ==
    /\ mainpc = "join"
    /\ joined < threads
    /\ JoinReturns(joined + 1)
    /\ joined' = joined + 1
    /\ UNCHANGED <<mainpc, configs, sni_checker, config, semaphore, threads,
                   vulnerable, pc, lambdaX>>
    /\ UNCHANGED runVars
    /\ UNCHANGED inputVars

\* Line 313: the join loop is exhausted and start() returns.
Return ==
    /\ mainpc = "join"
    /\ joined = threads
    /\ mainpc' = "returned"
    /\ UNCHANGED <<configs, sni_checker, config, semaphore, threads, joined,
                   vulnerable, pc, lambdaX>>
    /\ UNCHANGED runVars
    /\ UNCHANGED inputVars

(* ---- the threads: lambda x=config: sni_checker.run(x) ---- *)

\* Variant of RunArg: the lambda has no default argument and reads the loop
\* variable when the thread runs it (lambda: sni_checker.run(config)).
RunArgLateBound(i) == config

\* Line 310: the argument the lambda of thread i passes to run.
RunArg(i) == lambdaX[i]

\* Variant of PoolExhausted: the failure ends every thread that is running
\* or waiting to run, not only thread i.
PoolExhaustedEndsAll(i) ==
    [j \in Threads |->
        IF j = i \/ pc[j] \in InRun \cup {"ready"} THEN "crashed" ELSE pc[j]]

\* Variant of PoolExhausted: the empty pool does not stop the probe, which
\* goes on to write its file without a port.
PoolExhaustedGoesOn(i) == [pc EXCEPT ![i] = "write"]

\* Line 223 on an empty list: IndexError leaves run and ends the thread; no
\* handler encloses the pop. The pc function after it.
PoolExhausted(i) == [pc EXCEPT ![i] = "crashed"]

\* Variant of PoolAfterPop: the port is read and left in the pool
\* (ports[-1] for ports.pop()).
PoolAfterPeek == ports

\* Line 223: the pool a successful pop leaves.
PoolAfterPop == PopRest(ports)

\* Line 310, when the thread runs the lambda: sni_checker is read from the
\* enclosing scope and run is entered with the bound argument; line 223:
\* port = ports.pop(), one call under the interpreter lock.
EnterRun(i) ==
    /\ pc[i] = "ready"
    /\ self' = [self EXCEPT ![i] = sni_checker]
    /\ urls' = [urls EXCEPT ![i] = RunArg(i)]
    /\ IF ports = <<>>
          THEN /\ pc' = PoolExhausted(i)
               /\ exc' = [exc EXCEPT ![i] = "IndexError"]
               /\ UNCHANGED <<ports, port>>
          ELSE /\ port' = [port EXCEPT ![i] = PopValue(ports)]
               /\ ports' = PoolAfterPop
               /\ pc' = [pc EXCEPT ![i] = "write"]
               /\ UNCHANGED exc
    /\ UNCHANGED mainVars
    /\ UNCHANGED <<vulnerable, lambdaX, tmpdir, filename, process, signalled,
                   result, log>>

\* Lines 226-234: the document is rendered, the file name drawn, the file
\* written and closed.
WriteFile(i) ==
    /\ pc[i] = "write"
    /\ filename' = [filename EXCEPT ![i] = Uuid4(i)]
    /\ tmpdir' = tmpdir \cup {Uuid4(i)}
    /\ pc' = [pc EXCEPT ![i] = "popen"]
    /\ UNCHANGED mainVars
    /\ UNCHANGED <<vulnerable, lambdaX, ports, self, urls, port, process,
                   signalled, result, exc, log>>

\* Line 237: subprocess.Popen either starts the process in its own group or
\* raises OSError (fork failure); the call is outside the try statement, so
\* the exception leaves run.
Popen(i) ==
    /\ pc[i] = "popen"
    /\ \/ /\ process' = [process EXCEPT ![i] = "running"]
          /\ pc' = [pc EXCEPT ![i] = "try"]
          /\ UNCHANGED exc
       \/ /\ exc' = [exc EXCEPT ![i] = "OSError"]
          /\ pc' = [pc EXCEPT ![i] = "crashed"]
          /\ UNCHANGED process
    /\ UNCHANGED mainVars
    /\ UNCHANGED <<vulnerable, lambdaX, ports, tmpdir, self, urls, port,
                   filename, signalled, result, log>>

\* The tunnel process exits by itself (a configuration it rejects, a crash)
\* and stays a zombie until it is waited for.
ProcessExits(i) ==
    /\ process[i] = "running"
    /\ process' = [process EXCEPT ![i] = "exited"]
    /\ UNCHANGED mainVars
    /\ UNCHANGED <<vulnerable, pc, lambdaX, ports, tmpdir, self, urls, port,
                   filename, signalled, result, exc, log>>

\* Line 246: requests.get through the SOCKS endpoint on this probe's port
\* returns without raising: the tunnel is up and its variant reaches the
\* endpoint. Anything else raises within the 7 second timeout.
RequestSucceeds(i) == process[i] = "running" /\ urls[i] \in vulnerable

\* Lines 249-250: the success branch.
OnSuccess(i) ==
    /\ result' = [result EXCEPT ![i] = "urls"]
    /\ log' = [log EXCEPT ![i] = Append(@, [level |-> "INFO", arg |-> urls[i]])]

\* Lines 251-256: the except branch.
OnException(i) ==
    /\ result' = [result EXCEPT ![i] = "False"]
    /\ log' = [log EXCEPT ![i] = Append(@, [level |-> "WARNING", arg |-> port[i]])]

\* Variant of AfterTry: the teardown is in the except clause and the success
\* branch returns at once.
AfterTryTeardownOnError(i) == IF RequestSucceeds(i) THEN "done" ELSE "finally"

\* Lines 241-257: where control goes after the try body or its except clause:
\* the finally clause, on both paths.
AfterTry(i) == "finally"

\* Lines 241-256: the try statement's body and its except clause.
Check(i) ==
    /\ pc[i] = "try"
    /\ IF RequestSucceeds(i) THEN OnSuccess(i) ELSE OnException(i)
    /\ pc' = [pc EXCEPT ![i] = AfterTry(i)]
    /\ UNCHANGED mainVars
    /\ UNCHANGED <<vulnerable, lambdaX, ports, tmpdir, self, urls, port,
                   filename, process, signalled, exc>>

\* Line 259: SIGTERM goes to the process group. A running process either
\* terminates or keeps running (it handles or ignores the signal); a zombie
\* stays a zombie.
Killpg(i) ==
    /\ pc[i] = "finally"
    /\ signalled' = [signalled EXCEPT ![i] = TRUE]
    /\ IF process[i] = "running"
          THEN \E s \in {"exited", "ignoring"} :
                  process' = [process EXCEPT ![i] = s]
          ELSE UNCHANGED process
    /\ pc' = [pc EXCEPT ![i] = "wait"]
    /\ UNCHANGED mainVars
    /\ UNCHANGED <<vulnerable, lambdaX, ports, tmpdir, self, urls, port,
                   filename, result, exc, log>>

\* Line 260: process.wait() has no timeout and returns once the process has
\* exited, reaping it.
WaitReturns(i) == process[i] = "exited"

\* Line 260.
Wait(i) ==
    /\ pc[i] = "wait"
    /\ WaitReturns(i)
    /\ process' = [process EXCEPT ![i] = "reaped"]
    /\ pc' = [pc EXCEPT ![i] = "remove"]
    /\ UNCHANGED mainVars
    /\ UNCHANGED <<vulnerable, lambdaX, ports, tmpdir, self, urls, port,
                   filename, signalled, result, exc, log>>

\* Lines 263-267: the scratch file is removed and run returns result.
Remove(i) ==
    /\ pc[i] = "remove"
    /\ tmpdir' = tmpdir \ {filename[i]}
    /\ pc' = [pc EXCEPT ![i] = "done"]
    /\ UNCHANGED mainVars
    /\ UNCHANGED <<vulnerable, lambdaX, ports, self, urls, port, filename,
                   process, signalled, result, exc, log>>

\* The steps of thread i.
ThreadStep(i) ==
    \/ EnterRun(i)
    \/ WriteFile(i)
    \/ Popen(i)
    \/ Check(i)
    \/ Killpg(i)
    \/ Wait(i)
    \/ Remove(i)

\* The steps of start().
MainStep ==
    \/ Generate
    \/ CreateSemaphore
    \/ Dispatch
    \/ EndDispatch
    \/ Join
    \/ Return

Next ==
    \/ Generate
    \/ CreateSemaphore
    \/ Dispatch
    \/ EndDispatch
    \/ Join
    \/ Return
    \/ \E i \in Threads : EnterRun(i)
    \/ \E i \in Threads : WriteFile(i)
    \/ \E i \in Threads : Popen(i)
    \/ \E i \in Threads : ProcessExits(i)
    \/ \E i \in Threads : Check(i)
    \/ \E i \in Threads : Killpg(i)
    \/ \E i \in Threads : Wait(i)
    \/ \E i \in Threads : Remove(i)

Spec == Init /\ [][Next]_vars

\* The scheduler runs every thread that can take a step; the tunnel process
\* owes no step of its own.
FairSpec ==
    /\ Init /\ [][Next]_vars
    /\ WF_vars(MainStep)
    /\ \A i \in Threads : WF_vars(ThreadStep(i))

(* ---- the string functions called on their own ---- *)

\* The longest string replace_nth is called with.
MaxStrLen == 4

\* The largest occurrence number replace_nth is called with.
MaxN == 4

\* Every string of at most n characters of cs.
RECURSIVE StringsOver(_, _)
StringsOver(cs, n) ==
    IF n = 0 THEN {<<>>}
    ELSE LET shorter == StringsOver(cs, n - 1) IN
         shorter \cup {Append(s, c) : s \in {t \in shorter : Len(t) = n - 1}, c \in cs}

\* Lines 116-151: the arguments (string, old, new, n) of replace_nth.
ReplaceNthInputs ==
    StringsOver({"a", "b"}, MaxStrLen)
        \X {<<"a">>, <<"a", "a">>, <<"a", "b">>, <<>>}
        \X {<<"c">>, <<"a", "c">>, <<>>}
        \X ((0 - 1)..MaxN)

\* Lines 71-114: the configuration strings parse_config is called with,
\* <scheme>://<credential>@<host>:<port>?<query> with each part taken from a
\* few texts, among them parts that are missing or malformed.
SchemeTexts == {<<"v", ":", "/", "/">>, <<"V", ":", "/", "/">>, <<"/", "/">>}

CredentialTexts == {<<"u">>, <<"h">>, <<"u", "@", "w">>, <<"u", ":", "w">>}

HostTexts == {<<"h">>, <<"h", "h">>, <<>>}

PortTexts == {<<":", "4">>, <<":", "x">>, <<>>}

QueryTexts ==
    { <<>>,
      <<"?", "s", "n", "i", "=", "h">>,
      <<"?", "s", "n", "i", "=", "x">>,
      <<"?", "s", "n", "i", "=">>,
      <<"?", "h", "o", "s", "t", "=", "h">>,
      <<"?", "s", "n", "i", "=", "h", "&", "h", "o", "s", "t", "=", "h">>,
      <<"?", "s", "n", "i", "=", "h", "&", "x", "=", "h">>,
      <<"?", "a", "d", "d", "r", "e", "s", "s", "=", "u">>,
      <<"?", "p", "o", "r", "t", "=", "9">>,
      <<"?", "u", "u", "i", "d", "=", "h", "&", "s", "n", "i", "=", "h">> }

ConfigStrings ==
    {s \o c \o <<"@">> \o h \o p \o q :
        s \in SchemeTexts, c \in CredentialTexts, h \in HostTexts,
        p \in PortTexts, q \in QueryTexts}

\* Lines 153-170: the candidate domains a SniChecker is constructed with: one
\* that shares no text with an address, one that contains the address h, and
\* the address h itself.
SniTexts == {<<"f">>, <<"h", "f">>, <<"h">>}

\* str(n) of a natural number.
RECURSIVE Str(_)
Str(n) ==
    LET digit == CHOOSE c \in Digits : DigitValue(c) = n % 10 IN
    IF n < 10 THEN <<digit>> ELSE Str(n \div 10) \o <<digit>>

\* str.replace(old, new): every non-overlapping occurrence, left to right.
RECURSIVE ReplaceAll(_, _, _)
ReplaceAll(s, old, new) ==
    LET occurrences == FindIter(s, old) IN
    IF occurrences = <<>> THEN s
    ELSE Slice(s, 1, occurrences[1] - 1) \o new
            \o ReplaceAll(Slice(s, occurrences[1] + Len(old), Len(s)), old, new)

\* The text of the default listening port in a rendered document.
DefaultPort == <<"1", "0", "8", "0">>

\* Line 226: xray2json.generateConfig(urls), the document of the external
\* renderer for one variant, as the texts of its fields: the listening port,
\* always the default one, and the credential, address and remote port of the
\* variant.
generateConfig(id, address, remotePort) ==
    [listen |-> DefaultPort, id |-> id, address |-> address, port |-> remotePort]

\* The documents the renderer returns: of variants none of whose texts holds
\* the digits of the default port, and of variants that do.
Documents ==
    {generateConfig(id, address, remotePort) :
        id \in {<<"u">>, <<"a", "1", "0", "8", "0">>},
        address \in {<<"h">>, <<"1", "0", "8", "0", ".", "h">>},
        remotePort \in {<<"4", "4", "3">>, <<"1", "0", "8", "0">>, <<"1", "0", "8", "0", "1">>}}

\* Line 25: values that ports holds.
AcquiredPorts == {1024, 10800, 65535}

\* Line 226: .replace('1080', str(port)) on the text of the document, then
\* json.loads: every occurrence of the four digits in the text is replaced,
\* and an occurrence lies within one field.
RewritePort(doc, p) ==
    [f \in DOMAIN doc |-> ReplaceAll(doc[f], DefaultPort, Str(p))]

\* A function about to be called with arguments a.
Called(fn, a) == [fn |-> fn, args |-> a, done |-> FALSE, raised |-> FALSE, ret |-> <<>>]

\* The call returns r.
Returns(r) == [call EXCEPT !.done = TRUE, !.ret = r]

\* The call raises ValueError.
Raises == [call EXCEPT !.done = TRUE, !.raised = TRUE]

\* One call of one function, start() not running.
FnInit ==
    /\ \/ \E a \in ReplaceNthInputs : call = Called("replace_nth", a)
       \/ \E cfg \in ConfigStrings : call = Called("parse_config", <<cfg>>)
       \/ \E sni \in SniTexts, cfg \in ConfigStrings : call = Called("generate", <<sni, cfg>>)
       \/ \E doc \in Documents, p \in AcquiredPorts : call = Called("run.config", <<doc, p>>)
    /\ baseConfig = <<>>
    /\ sniList = 0
    /\ mainpc = "generate"
    /\ configs = <<>>
    /\ sni_checker = 0
    /\ config = 0
    /\ semaphore = 0
    /\ threads = 0
    /\ joined = 0
    /\ vulnerable = {}
    /\ InitRun

\* What a call leaves alone: everything but call.
startVars == <<baseConfig, sniList, mainpc, configs, sni_checker, config,
               semaphore, threads, joined, vulnerable, pc, lambdaX>>

\* Lines 116-151: replace_nth(string, old, new, n).
CallReplaceNth ==
    /\ call.fn = "replace_nth" /\ ~call.done
    /\ call' = Returns(replace_nth(call.args[1], call.args[2], call.args[3], call.args[4]))
    /\ UNCHANGED startVars
    /\ UNCHANGED runVars

\* Lines 71-114: parse_config(config) returns the dictionary or raises.
CallParseConfig ==
    /\ call.fn = "parse_config" /\ ~call.done
    /\ LET parsed == parse_config(call.args[1]) IN
       call' = IF parsed.ok THEN Returns(parsed.result) ELSE Raises
    /\ UNCHANGED startVars
    /\ UNCHANGED runVars

\* Lines 153-202: SniChecker(sni, config).generate(); the constructor raises
\* when parse_config does.
CallGenerate ==
    /\ call.fn = "generate" /\ ~call.done
    /\ call' = IF parse_config(call.args[2]).ok
                 THEN Returns(generate(call.args[1], call.args[2]))
                 ELSE Raises
    /\ UNCHANGED startVars
    /\ UNCHANGED runVars

\* Line 226: the document run hands to the tunnel process.
CallRewritePort ==
    /\ call.fn = "run.config" /\ ~call.done
    /\ call' = Returns(RewritePort(call.args[1], call.args[2]))
    /\ UNCHANGED startVars
    /\ UNCHANGED runVars

FnNext ==
    \/ CallReplaceNth
    \/ CallParseConfig
    \/ CallGenerate
    \/ CallRewritePort

FnSpec == FnInit /\ [][FnNext]_vars

(* ---- the claims ---- *)

\* The threads that hold a port (run's local port is set).
Holders == {i \in Threads : port[i] # 0}

\* The ports still in the pool.
InPool == {ports[n] : n \in 1..Len(ports)}

\* C1: while start() dispatches probes, never more than max_threads
\* invocations of run are in flight at the same time.
C1_AtMostMaxThreadsInFlight == Cardinality(InFlight) <= max_threads

\* C2: the pool never yields the same port twice: no two probes ever hold the
\* same port, a held port is no longer in the pool, and once as many probes
\* hold a port as the pool had ports, the pool is empty.
C2_PortNeverYieldedTwice ==
    /\ \A i, j \in Holders : i # j => port[i] # port[j]
    /\ \A i \in Holders : port[i] \notin InPool
    /\ Cardinality(Holders) = PoolSize => ports = <<>>

\* C2's case: as many probes as the pool had ports hold a port at the same
\* time, all of them in flight.
C2_Witness ==
    /\ Cardinality(Holders \cap InFlight) = PoolSize
    /\ ports = <<>>

\* C3: with more variants than max_threads, every variant has exactly one
\* terminal log line when start() returns.
C3_OneOutcomePerVariant ==
    (mainpc = "returned" /\ Len(configs) > max_threads)
        => \A v \in 1..Len(configs) : Len(log[v]) = 1

\* C4: when start() has returned, a thread was dispatched for every variant
\* and no dispatched invocation of run is still executing.
C4_ReturnsAfterAllProbesEnded ==
    mainpc = "returned"
        => /\ threads = Len(configs)
           /\ \A i \in 1..threads : pc[i] \in Ended

\* C4's case: start() has returned after dispatching a probe for every one of
\* NumVariants variants, one of which ran to the end of run.
C4_Witness ==
    /\ mainpc = "returned"
    /\ threads = NumVariants
    /\ \E i \in Threads : pc[i] = "done"

\* A probe has failed: it was ended by an exception or its result is False.
Failed(i) == pc[i] = "crashed" \/ result[i] = "False"

\* A step in which probe i fails leaves every sibling as it was.
C5_SiblingsUntouched ==
    \A i \in Threads :
        (~Failed(i) /\ Failed(i)')
            => \A j \in Threads \ {i} :
                  /\ pc'[j] = pc[j]
                  /\ result'[j] = result[j]
                  /\ exc'[j] = exc[j]
                  /\ log'[j] = log[j]
                  /\ process'[j] = process[j]

\* Whatever the siblings did, a dispatched probe can take its next step; only
\* the wait for its own process can hold it. Its result is the one of its own
\* check: success only for a variant that reaches the endpoint, failure only
\* for one that does not or whose own process had exited.
C5_OwnOutcome ==
    \A j \in Threads :
        /\ pc[j] \in {"ready", "write", "popen", "try", "finally", "remove"}
              => ENABLED ThreadStep(j)
        /\ pc[j] = "wait" => (ENABLED ThreadStep(j) \/ process[j] = "ignoring")
        /\ result[j] = "urls" => urls[j] \in vulnerable
        /\ result[j] = "False"
              => (urls[j] \notin vulnerable \/ process[j] \in {"exited", "reaped"})

\* C5: a probe that fails (also on an empty pool) never blocks, cancels or
\* changes the outcome of a sibling probe.
C5_FailureIsolated == [][C5_SiblingsUntouched]_vars /\ []C5_OwnOutcome

\* C5's case: a probe has found the pool empty while a sibling is in flight
\* with its connectivity check still to come.
C5_Witness ==
    \E i, j \in Threads :
        /\ exc[i] = "IndexError"
        /\ pc[j] = "try"

\* C6: a probe that ended without a port (it found the pool empty) is
\* reported as a failure, and wrote no file and launched no process.
C6_PoolExhaustedReported ==
    \A i \in Threads :
        (pc[i] \in Ended /\ port[i] = 0)
            => /\ result[i] = "False"
               /\ Len(log[i]) = 1
               /\ filename[i] = 0
               /\ process[i] = "none"

\* C7: a probe that launched a process and has left the finally clause's
\* teardown has sent SIGTERM to the group and waited for the process; no
\* process of an ended probe is alive.
C7_TunnelTerminatedOnEveryExit ==
    \A i \in Threads :
        (pc[i] \in Ended \cup {"remove"} /\ process[i] # "none")
            => /\ signalled[i]
               /\ process[i] = "reaped"

\* C7's case: one probe has ended by success and another by a failed
\* connectivity check, both after launching a process.
C7_Witness ==
    \E i, j \in Threads :
        /\ pc[i] = "done" /\ result[i] = "urls" /\ process[i] = "reaped"
        /\ pc[j] = "done" /\ result[j] = "False" /\ process[j] = "reaped"

\* C8: once a probe has ended, the scratch file it wrote no longer exists.
C8_ScratchFileRemovedOnEveryExit ==
    \A i \in Threads :
        (pc[i] \in Ended /\ filename[i] # 0) => filename[i] \notin tmpdir

\* C9: every started probe eventually ends.
C9_EveryProbeEnds ==
    \A i \in Threads : (pc[i] \in InRun) ~> (pc[i] \in Ended)

\* C10: each worker probes the variant it was dispatched for and its outcome
\* is that variant's: the success line names the variant and is logged only
\* for a variant that reaches the endpoint, the failure line carries the
\* probe's own port, and every worker calls run on the last instance.
C10_OutcomeOfOwnVariant ==
    \A i \in Threads :
        pc[i] \notin {"none", "ready"}
            => /\ urls[i] = configs[i]
               /\ self[i] = Len(configs)
               /\ result[i] = "urls"
                     => /\ configs[i] \in vulnerable
                        /\ log[i] = <<[level |-> "INFO", arg |-> configs[i]]>>
               /\ result[i] = "False"
                     => /\ configs[i] \notin vulnerable
                           \/ process[i] \in {"exited", "reaped"}
                        /\ log[i] = <<[level |-> "WARNING", arg |-> port[i]]>>

\* C10's case: two variants with different outcomes, both probed through an
\* instance that is not the one they were generated by.
C10_Witness ==
    \E i, j \in Threads :
        /\ pc[i] = "done" /\ result[i] = "urls" /\ self[i] # i
        /\ pc[j] = "done" /\ result[j] = "False" /\ self[j] # j
        /\ configs[j] \notin vulnerable

(* ---- C11: a rejected base configuration ---- *)

\* C11: when parse_config rejects the configuration given to start(), start()
\* fails: it never gets past the construction of the checkers, and no port is
\* taken, no scratch file written and no tunnel process launched.
C11_RejectedConfigIsFatal ==
    (~parse_config(baseConfig).ok /\ mainpc # "generate")
        => /\ mainpc = "raised"
           /\ ports = InitialPool
           /\ tmpdir = {}
           /\ \A i \in Threads : process[i] = "none"

(* ---- occurrences, stated without the code's scan ---- *)

\* The starts of the occurrences of old in s that a left-to-right reader
\* counts: old is there, and no counted occurrence before it reaches into it.
Starts(s, old) ==
    LET IsStart[p \in 1..(Len(s) + 1)] ==
            /\ MatchesAt(s, old, p)
            /\ \A q \in 1..(p - 1) : (q + Len(old) > p) => ~IsStart[q]
    IN  {p \in 1..(Len(s) + 1) : IsStart[p]}

\* The start of the i-th occurrence, for 1 <= i <= Cardinality(Starts(s, old)).
NthStart(s, old, i) ==
    CHOOSE p \in Starts(s, old) :
        Cardinality({q \in Starts(s, old) : q < p}) = i - 1

\* s with the occurrence of old at p replaced by new and nothing else touched.
ReplacedAt(s, old, new, p) ==
    Slice(s, 1, p - 1) \o new \o Slice(s, p + Len(old), Len(s))

\* s with exactly the occurrences of old that start in R replaced by new.
RECURSIVE ReplacedAtAll(_, _, _, _)
ReplacedAtAll(s, old, new, R) ==
    IF R = {} THEN s
    ELSE LET p == CHOOSE x \in R : \A y \in R : y <= x IN
         ReplacedAtAll(ReplacedAt(s, old, new, p), old, new, R \ {p})

\* The characters of a string.
CharsOf(s) == {s[k] : k \in 1..Len(s)}

\* A call of generate has returned its list of variants.
Generated == call.fn = "generate" /\ call.done /\ ~call.raised

\* The candidate domain and the configuration string of a call of generate,
\* and the address its checker holds (self.config['address']).
CallSni == call.args[1]

CallUrl == call.args[2]

CallAddress == parse_config(CallUrl).result[KeyAddress][2]

(* ---- C12: no variant is the unmodified base ---- *)

\* C12: every variant generate returns is the base configuration string with
\* one or more occurrences of the address replaced by the candidate domain,
\* and none is the base string itself. Stated for a non-empty address and a
\* candidate that shares no character with it, where a replaced occurrence
\* always shows.
C12_EveryVariantSubstituted ==
    (/\ Generated
     /\ CallAddress # <<>>
     /\ CharsOf(CallSni) \cap CharsOf(CallAddress) = {})
        => \A k \in 1..Len(call.ret) :
              /\ call.ret[k] # CallUrl
              /\ \E R \in SUBSET Starts(CallUrl, CallAddress) :
                    /\ R # {}
                    /\ call.ret[k] = ReplacedAtAll(CallUrl, CallAddress, CallSni, R)

(* ---- C13: the primary variant ---- *)

\* The fields of the query of a configuration string, as written.
QueryFields(url) ==
    IF urlparse(url).query = <<>> THEN <<>> ELSE Split(urlparse(url).query, "&")

\* The query has a field of that name, whatever its value.
HasField(url, key) ==
    \E k \in 1..Len(QueryFields(url)) : SplitOnce(QueryFields(url)[k], "=")[1] = key

\* C13: generate returns a non-empty list whose first element is the base
\* string with only the first occurrence of the address replaced by the
\* candidate domain, and exactly that one variant when the configuration has
\* neither the sni nor the host flag.
C13_PrimaryVariantFirst ==
    Generated
        => /\ Len(call.ret) >= 1
           /\ Starts(CallUrl, CallAddress) # {}
           /\ call.ret[1] = ReplacedAt(CallUrl, CallAddress, CallSni,
                                       NthStart(CallUrl, CallAddress, 1))
           /\ (~HasField(CallUrl, KeySni) /\ ~HasField(CallUrl, KeyHost))
                 => Len(call.ret) = 1

\* C13's case: a configuration with neither flag whose address occurs more
\* than once, and a candidate that differs from the address.
C13_Witness ==
    /\ Generated
    /\ ~HasField(CallUrl, KeySni) /\ ~HasField(CallUrl, KeyHost)
    /\ Cardinality(Starts(CallUrl, CallAddress)) >= 2
    /\ CallSni # CallAddress
    /\ call.ret[1] # CallUrl

(* ---- C14: the sni flag and an address that occurs twice ---- *)

\* The query has a field of that name with a value that is not blank.
FlagPresent(url, key) ==
    \E k \in 1..Len(QueryFields(url)) :
        LET pieces == SplitOnce(QueryFields(url)[k], "=") IN
        pieces[1] = key /\ Len(pieces) = 2 /\ pieces[2] # <<>>

\* C14: with the sni flag present, the host flag absent and the address
\* occurring exactly twice in the configuration string, generate returns
\* exactly two variants: only the first occurrence replaced, and only the
\* second occurrence replaced. Stated for a candidate other than the address.
C14_TwoOccurrencesTwoVariants ==
    (/\ Generated
     /\ FlagPresent(CallUrl, KeySni) /\ ~HasField(CallUrl, KeyHost)
     /\ Cardinality(Starts(CallUrl, CallAddress)) = 2
     /\ CallSni # CallAddress)
        => call.ret = << ReplacedAt(CallUrl, CallAddress, CallSni,
                                    NthStart(CallUrl, CallAddress, 1)),
                         ReplacedAt(CallUrl, CallAddress, CallSni,
                                    NthStart(CallUrl, CallAddress, 2)) >>

(* ---- C15: the authority is cut at its last '@' ---- *)

\* A call of parse_config is over (it returned or raised).
Parsed == call.fn = "parse_config" /\ call.done

\* The authority of the configuration string of a call of parse_config.
CallNetloc == urlparse(call.args[1]).netloc

\* The authority cut at its last '@': what is left of it, what is right of it.
LastAt(netloc) ==
    CHOOSE k \in 1..Len(netloc) :
        netloc[k] = "@" /\ \A m \in (k + 1)..Len(netloc) : netloc[m] # "@"

Credential(netloc) == Slice(netloc, 1, LastAt(netloc) - 1)

HostPort(netloc) == Slice(netloc, LastAt(netloc) + 1, Len(netloc))

\* The query sets none of the keys parse_config takes from the authority.
QueryKeepsAuthority(url) ==
    \A key \in {KeyProto, KeyUuid, KeyAddress, KeyPort} : ~HasField(url, key)

\* C15: for a configuration string with a scheme whose credential holds '@'
\* or ':' and whose host is followed by ':' and an integer, parse_config
\* returns the credential left of the last '@', the host right of it and the
\* integer after the host's ':'.
C15_CutAtLastAt ==
    (/\ Parsed
     /\ urlparse(call.args[1]).scheme # <<>>
     /\ "@" \in CharsOf(CallNetloc)
     /\ CharsOf(Credential(CallNetloc)) \cap {"@", ":"} # {}
     /\ Len(Split(HostPort(CallNetloc), ":")) = 2
     /\ IsInt(Split(HostPort(CallNetloc), ":")[2])
     /\ QueryKeepsAuthority(call.args[1]))
        => /\ ~call.raised
           /\ call.ret[KeyUuid] = StrValue(Credential(CallNetloc))
           /\ call.ret[KeyAddress] = StrValue(Split(HostPort(CallNetloc), ":")[1])
           /\ call.ret[KeyPort] = IntValue(IntOf(Split(HostPort(CallNetloc), ":")[2]))

(* ---- C16: the expansion pass ---- *)

\* The number of variants the primary, sni and host steps produce.
StepVariants(url) ==
    1 + (IF FlagPresent(url, KeySni) THEN 1 ELSE 0)
      + (IF FlagPresent(url, KeyHost) THEN 1 ELSE 0)

\* The variants with exactly one more occurrence of the address replaced, on
\* top of variant v: one for each occurrence remaining in v except its last
\* `kept` ones, in the order of the occurrences.
OneMoreReplaced(v, address, sni, kept) ==
    [j \in 1..(Cardinality(Starts(v, address)) - kept) |->
        ReplacedAt(v, address, sni, NthStart(v, address, j))]

\* Those variants for the variants i..m of the list, in the order of the list.
RECURSIVE Layered(_, _, _, _, _, _)
Layered(list, i, m, address, sni, kept) ==
    IF i > m THEN <<>>
    ELSE OneMoreReplaced(list[i], address, sni, kept)
            \o Layered(list, i + 1, m, address, sni, kept)

\* What generate returned after the variants of the primary, sni and host steps.
ExpansionOutput == SubSeq(call.ret, StepVariants(CallUrl) + 1, Len(call.ret))

\* C16, as claimed: for every variant of the sni and host steps and for each
\* occurrence of the address remaining in it, the expansion adds the variant
\* that replaces exactly that occurrence, and nothing else. Stated for a
\* non-empty address and a candidate that shares no character with it.
C16_EveryRemainingOccurrence ==
    (/\ Generated
     /\ CallAddress # <<>>
     /\ CharsOf(CallSni) \cap CharsOf(CallAddress) = {})
        => ExpansionOutput
              = Layered(call.ret, 2, StepVariants(CallUrl), CallAddress, CallSni, 0)

\* C16, amended: for every variant of the sni and host steps, with c the
\* number of occurrences of the address in that variant, the expansion adds
\* the c - 1 variants that replace exactly its 1st, ..., (c-1)-th occurrence;
\* the last occurrence is never the one replaced, and the variants the
\* expansion adds are not expanded.
C16_AllButLastOccurrence ==
    Generated
        => ExpansionOutput
              = Layered(call.ret, 2, StepVariants(CallUrl), CallAddress, CallSni, 1)

\* C16's case: a variant of the sni or host step that still holds two or more
\* occurrences of the address, so the expansion added variants and skipped one.
C16_Witness ==
    /\ Generated
    /\ CharsOf(CallSni) \cap CharsOf(CallAddress) = {}
    /\ \E i \in 2..StepVariants(CallUrl) :
          Cardinality(Starts(call.ret[i], CallAddress)) >= 2
    /\ Len(call.ret) > StepVariants(CallUrl)

(* ---- C17: replace_nth ---- *)

\* A call of replace_nth has returned.
Replaced == call.fn = "replace_nth" /\ call.done

\* C17: for a non-empty old with k non-overlapping occurrences in the string,
\* replace_nth(string, old, new, i) with 1 <= i <= k is the string with
\* exactly the i-th occurrence replaced and everything else as it was, and
\* with i <= 0 or i > k it is the string unchanged.
C17_ExactlyTheNthOccurrence ==
    (Replaced /\ call.args[2] # <<>>)
        => LET string == call.args[1]
               old == call.args[2]
               new == call.args[3]
               i == call.args[4]
               k == Cardinality(Starts(string, old))
           IN  IF 1 <= i /\ i <= k
                 THEN call.ret = ReplacedAt(string, old, new, NthStart(string, old, i))
                 ELSE call.ret = string

\* C17's case: three or more occurrences, the second one replaced by a text
\* that holds old again.
C17_Witness ==
    /\ Replaced
    /\ call.args[2] # <<>>
    /\ Cardinality(Starts(call.args[1], call.args[2])) >= 3
    /\ call.args[4] = 2
    /\ Count(call.args[3], call.args[2]) > 0
    /\ call.ret # call.args[1]

(* ---- C18: the port rewrite touches only the listening port ---- *)

\* C18: the document run hands on differs from the renderer's document only
\* in its listening port, which is the acquired port; the credential, the
\* address and the remote port of the variant are the renderer's.
C18_OnlyListeningPortRewritten ==
    (call.fn = "run.config" /\ call.done)
        => /\ call.ret.listen = Str(call.args[2])
           /\ \A f \in DOMAIN call.ret \ {"listen"} : call.ret[f] = call.args[1][f]

(* ---- C19: the query does not override the authority ---- *)

\* C19: the protocol, credential, address and port parse_config returns are
\* the scheme and the parts of the authority, whatever keys the query holds,
\* and the address generate substitutes is the host of the authority. Stated
\* for an authority with a single '@' and a single ':'.
C19_AuthorityWinsOverQuery ==
    LET url == call.args[IF call.fn = "generate" THEN 2 ELSE 1]
        netloc == urlparse(url).netloc
        host == Split(HostPort(netloc), ":")[1]
    IN  /\ (/\ Parsed /\ ~call.raised
            /\ Len(Split(netloc, "@")) = 2 /\ Len(Split(netloc, ":")) = 2)
               => /\ call.ret[KeyProto] = StrValue(urlparse(url).scheme)
                  /\ call.ret[KeyUuid] = StrValue(Credential(netloc))
                  /\ call.ret[KeyAddress] = StrValue(host)
                  /\ call.ret[KeyPort] = IntValue(IntOf(Split(netloc, ":")[2]))
        /\ (/\ Generated
            /\ Len(Split(netloc, "@")) = 2 /\ Len(Split(netloc, ":")) = 2)
               => call.ret[1] = ReplacedAt(url, host, call.args[1], NthStart(url, host, 1))

(* ---- C20: the pool bounds the files and the processes ---- *)

\* The probes that have written their scratch file, now or earlier.
FilesWritten == {i \in Threads : filename[i] # 0}

\* The probes whose tunnel process has been launched, now or earlier.
Launched == {i \in Threads : process[i] # "none"}

\* C20: over one run no more scratch files are written and no more tunnel
\* processes launched than the pool held ports at the start, whatever the
\* number of variants and the interleaving.
C20_PoolBoundsFilesAndProcesses ==
    /\ Cardinality(FilesWritten) <= Len(InitialPool)
    /\ Cardinality(Launched) <= Len(InitialPool)
    /\ Launched \subseteq FilesWritten
    /\ FilesWritten \subseteq Holders

\* C20's case: more variants than ports; as many files written and processes
\* launched as there were ports, and a further probe ended on the empty pool.
C20_Witness ==
    /\ Len(configs) > Len(InitialPool)
    /\ Cardinality(FilesWritten) = Len(InitialPool)
    /\ Cardinality(Launched) = Len(InitialPool)
    /\ \E i \in Threads : exc[i] = "IndexError" /\ filename[i] = 0

====
